---- MODULE Spec2Model ----
(***************************************************************************)
(* Model of the Game controller of src/src/app.ts: the two-state          *)
(* navigation (world view / selected country), the two uncoordinated      *)
(* fetches, the map click handler, the popup overlay, the browser URL and *)
(* history, and the label style callback.                                 *)
(*                                                                         *)
(* JavaScript is single threaded: every event handler (start-button       *)
(* click, map singleclick, the continuation of an awaited fetch, a style  *)
(* callback of the renderer) runs to completion and is one action.        *)
(* Strings of the program are sequences of one-character strings, so that *)
(* the URL is really formatted by switchState and really parsed by        *)
(* URLSearchParams.  Country codes are ISO codes (letters), for which      *)
(* percent-encoding is the identity.                                      *)
(***************************************************************************)
EXTENDS Integers, Sequences, FiniteSets, TLC

(* ---------------------------------------------------------------- bounds *)
\* number of switchState calls explored
MaxSwitches == 2
\* number of features of one layer that lie under one click
MaxHitsPerLayer == 1
\* distance from the thresholds of labelStyle of the resolutions rendered
StyleDelta == 15

(* ------------------------------------------------------ JavaScript values *)
Null == [t |-> "null", v |-> <<>>]
Undefined == [t |-> "undefined", v |-> <<>>]
Str(s) == [t |-> "string", v |-> s]

\* !x for a value that is null, undefined or a string
Falsy(x) == x.t # "string" \/ x.v = <<>>

\* x != null (loose inequality: false for null and for undefined)
NotNullish(x) == x.t = "string"

\* the property key a value is converted to by obj[x]
ToPropertyKey(x) ==
    IF x.t = "string" THEN x.v
    ELSE IF x.t = "null" THEN <<"n", "u", "l", "l">>
    ELSE <<"u", "n", "d", "e", "f", "i", "n", "e", "d">>

(* ------------------------------------------------------------ static data *)
\* countries.json: the metadata mapping, keyed by ISO code
Metadata ==
    { [iso2 |-> <<"N", "L">>, emoji |-> <<"flagNL">>, name |-> <<"D", "u", "t", "c", "h">>] }

\* maps/countries-optimized.geojson: the iso2 property of each polygon
\* feature, in document order (a known code, no iso2 property at all)
PolygonCodes == << Str(<<"N", "L">>), Undefined >>

\* the keys of countries.json, in document order
MetadataOrder == << <<"N", "L">> >>

\* window.location.search when the page is opened
InitialSearches ==
    { <<>>,
      <<"?", "c", "=">>,
      <<"?", "z", "=", "1", "&", "c", "=", "N", "L">> }

\* event.coordinate of a click (the popup starts without a position, so one
\* coordinate tells a positioned popup from one left alone)
ClickCoordinates == { <<5, 7>> }

\* view resolutions the renderer passes to the style callback: the values
\* within StyleDelta of the two thresholds of labelStyle
Resolutions ==
    { 4000 + d : d \in (0 - StyleDelta)..StyleDelta }
        \cup { 10000 + d : d \in (0 - StyleDelta)..StyleDelta }

(* -------------------------------------------------------------- variables *)
VARIABLES
    state,          \* Game.#state
    selected,       \* Game.#selected
    countries,      \* Game.#countries
    labelSource,    \* source of Game.#labelLayer
    polygonSource,  \* source of Game.#polygonLayer
    popupAttached,  \* Game.#popupContainer has a parent node
    popupText,      \* Game.#popupText.innerText
    popupPosition,  \* position of Game.#popupOverlay
    search,         \* window.location.search
    hist,           \* the session history entries
    pending,        \* fetches not yet resolved; one that rejects (nothing
                    \* catches it) changes no field: it stays here for good
    views,          \* number of world views started
    switches,       \* number of switchState calls made
    last            \* the handler that ran last, its input and what it saw

vars == << state, selected, countries, labelSource, polygonSource, popupAttached,
           popupText, popupPosition, search, hist, pending, views, switches, last >>

\* the program state as one record, for the steps of a handler
Cur ==
    [ state |-> state, selected |-> selected, countries |-> countries,
      labelSource |-> labelSource, polygonSource |-> polygonSource,
      popupAttached |-> popupAttached, popupText |-> popupText,
      popupPosition |-> popupPosition, search |-> search, hist |-> hist,
      pending |-> pending, views |-> views, switches |-> switches ]

Commit(r) ==
    /\ state' = r.state
    /\ selected' = r.selected
    /\ countries' = r.countries
    /\ labelSource' = r.labelSource
    /\ polygonSource' = r.polygonSource
    /\ popupAttached' = r.popupAttached
    /\ popupText' = r.popupText
    /\ popupPosition' = r.popupPosition
    /\ search' = r.search
    /\ hist' = r.hist
    /\ pending' = r.pending
    /\ views' = r.views
    /\ switches' = r.switches

(* ------------------------------------------------------- URL and history *)
\* position of the first ch in s, 0 when there is none
IndexOf(s, ch) ==
    IF \E i \in 1..Len(s) : s[i] = ch
    THEN CHOOSE i \in 1..Len(s) : s[i] = ch /\ \A j \in 1..(i - 1) : s[j] # ch
    ELSE 0

RECURSIVE SplitOn(_, _)
\* s.split(sep)
SplitOn(s, sep) ==
    LET i == IndexOf(s, sep)
    IN  IF i = 0 THEN << s >>
        ELSE << SubSeq(s, 1, i - 1) >> \o SplitOn(SubSeq(s, i + 1, Len(s)), sep)

\* the (name, value) pairs URLSearchParams parses from a search string:
\* a leading "?" is dropped, pairs are separated by "&", empty pairs are
\* skipped, a pair splits at its first "="
ParsePairs(s) ==
    LET body == IF Len(s) > 0 /\ s[1] = "?" THEN Tail(s) ELSE s
        parts == SelectSeq(SplitOn(body, "&"), LAMBDA p : p # <<>>)
        Pair(p) ==
            LET i == IndexOf(p, "=")
            IN  IF i = 0 THEN [name |-> p, value |-> <<>>]
                ELSE [name |-> SubSeq(p, 1, i - 1), value |-> SubSeq(p, i + 1, Len(p))]
    IN  [k \in 1..Len(parts) |-> Pair(parts[k])]

\* new URLSearchParams(s).get(name): the first value of that name, or null
SearchParamsGet(s, name) ==
    LET pairs == ParsePairs(s)
        named == SelectSeq(pairs, LAMBDA p : p.name = name)
    IN  IF named = <<>> THEN Null ELSE Str(named[1].value)

\* the URL argument switchState passes to history.pushState
StateUrl(s) == IF NotNullish(s) THEN <<"?", "c", "=">> \o s.v ELSE <<>>

\* the search string of the document after navigating to the relative URL
\* rel: an empty reference resolves to the current URL, query included; a
\* reference that starts with "?" replaces the query
ResolveSearch(current, rel) == IF rel = <<>> THEN current ELSE rel

\* history.replaceState in place of history.pushState
ReplaceState(r, s) ==
    LET url == ResolveSearch(r.search, StateUrl(s))
    IN  [r EXCEPT !.search = url,
                  !.hist = [r.hist EXCEPT ![Len(r.hist)] = [data |-> s, search |-> url]]]

\* history.pushState(state, '', state != null ? `?c=${state}` : '')
PushState(r, s) ==
    LET url == ResolveSearch(r.search, StateUrl(s))
    IN  [r EXCEPT !.search = url,
                  !.hist = Append(r.hist, [data |-> s, search |-> url])]

(* ------------------------------------------------------------ the views *)
NoSource == [kind |-> "none", view |-> 0]
LabelSourceOf(v) == [kind |-> "labels", view |-> v]
PolygonSourceOf(v) == [kind |-> "polygons", view |-> v]

NoCountries == [loaded |-> FALSE, entries |-> {}]
NoPosition == <<>>

\* Game.endState
EndState(r) ==
    IF Falsy(r.state)
    THEN [r EXCEPT !.labelSource = NoSource,
                   !.polygonSource = NoSource,
                   !.popupAttached = FALSE]
    ELSE r

\* Game.loadWorld up to its await: the fetch of countries.json is started
LoadWorld(r, v) == [r EXCEPT !.pending = @ \cup {[kind |-> "loadWorld", view |-> v]}]

\* Game.loadCountryPolygons up to its await
LoadCountryPolygons(r, v) ==
    [r EXCEPT !.pending = @ \cup {[kind |-> "loadCountryPolygons", view |-> v]}]

\* Game.loadCountry: an empty body
LoadCountry(r) == r

\* startState that tests state == null in place of !state
StartStateNullTest(r) ==
    IF ~NotNullish(r.state)
    THEN LET v == r.views + 1
         IN  LoadCountryPolygons(LoadWorld([r EXCEPT !.views = v], v), v)
    ELSE LoadCountry(r)

\* Game.startState
StartState(r) ==
    IF Falsy(r.state)
    THEN LET v == r.views + 1
         IN  LoadCountryPolygons(LoadWorld([r EXCEPT !.views = v], v), v)
    ELSE LoadCountry(r)

\* switchState that assigns the new state before the teardown
SwitchStateStepsSetFirst(r, s) ==
    LET r1 == [r EXCEPT !.state = s]
        r2 == EndState(r1)
        r3 == PushState(r2, s)
        r4 == StartState(r3)
    IN  << r2, r2, r3, r4 >>

\* Game.switchState: the program state after each of its four statements
SwitchStateSteps(r, s) ==
    LET r1 == EndState(r)
        r2 == [r1 EXCEPT !.state = s]
        r3 == PushState(r2, s)
        r4 == StartState(r3)
    IN  << r1, r2, r3, r4 >>

(* ------------------------------------------------------------- features *)
\* the point feature loadWorld builds for one entry of the metadata
LabelFeature(info) ==
    [ layer |-> "label", iso2 |-> Str(info.iso2),
      label |-> [short |-> info.emoji, long |-> info.emoji \o <<" ">> \o info.name] ]

\* a polygon feature read from the GeoJSON document; it carries no label
PolygonFeature(code) == [layer |-> "polygon", iso2 |-> code]

\* the features of a layer source, in the order they were added
SourceFeatures(src) ==
    IF src.kind = "labels"
    THEN [ i \in 1..Len(MetadataOrder) |->
             LabelFeature(CHOOSE info \in Metadata : info.iso2 = MetadataOrder[i]) ]
    ELSE IF src.kind = "polygons"
    THEN [ i \in 1..Len(PolygonCodes) |-> PolygonFeature(PolygonCodes[i]) ]
    ELSE <<>>

RECURSIVE Pick(_, _)
\* the elements of fs at the positions in at, in the order of fs
Pick(fs, at) ==
    IF fs = <<>> THEN <<>>
    ELSE (IF Len(fs) \in at THEN Pick(SubSeq(fs, 1, Len(fs) - 1), at) \o << fs[Len(fs)] >>
          ELSE Pick(SubSeq(fs, 1, Len(fs) - 1), at))

\* the lists of at most MaxHitsPerLayer features of one layer that one
\* click can lie over, visited in the order of the source
LayerHits(fs) ==
    { Pick(fs, at) : at \in { a \in SUBSET (1..Len(fs)) : Cardinality(a) <= MaxHitsPerLayer } }

\* the feature lists forEachFeatureAtPixel can visit for one click: the
\* features of the label layer (the topmost) first, then the polygons
HitLists(r) ==
    { l \o p : l \in LayerHits(SourceFeatures(r.labelSource)),
               p \in LayerHits(SourceFeatures(r.polygonSource)) }

(* ------------------------------------------------------------ map click *)
\* this.#countries[iso2]: the entry under that key, when there is one
HasEntry(cs, iso2) ==
    cs.loaded /\ \E info \in cs.entries : info.iso2 = ToPropertyKey(iso2)

EntryOf(cs, iso2) == CHOOSE info \in cs.entries : info.iso2 = ToPropertyKey(iso2)

\* `${info.emoji} ${info.name}`
PopupTextOf(info) == info.emoji \o <<" ">> \o info.name

\* the callback that looks the entry up before it records the code
FeatureCallbackLookupFirst(r, feature) ==
    IF ~HasEntry(r.countries, feature.iso2)
    THEN [r |-> r, threw |-> TRUE]
    ELSE [ r |-> [r EXCEPT !.selected = feature.iso2,
                           !.popupText = PopupTextOf(EntryOf(r.countries, feature.iso2))],
           threw |-> FALSE ]

\* the callback mapClick passes to forEachFeatureAtPixel; reading a property
\* of undefined (no #countries yet, or no entry under the key) throws
FeatureCallback(r, feature) ==
    LET r1 == [r EXCEPT !.selected = feature.iso2]
    IN  IF ~HasEntry(r1.countries, feature.iso2)
        THEN [r |-> r1, threw |-> TRUE]
        ELSE [ r |-> [r1 EXCEPT !.popupText =
                                   PopupTextOf(EntryOf(r1.countries, feature.iso2))],
               threw |-> FALSE ]

RECURSIVE ForEachFeatureAtPixel(_, _)
\* the callback is run on every feature hit, in order (it returns nothing,
\* so detection never stops early); an exception ends the iteration
ForEachFeatureAtPixel(r, hits) ==
    IF hits = <<>> THEN [r |-> r, threw |-> FALSE]
    ELSE LET one == FeatureCallback(r, Head(hits))
         IN  IF one.threw THEN one ELSE ForEachFeatureAtPixel(one.r, Tail(hits))

\* setPosition that puts the popup element back into the document
SetPositionReattach(r, coord) ==
    [r EXCEPT !.popupPosition = coord, !.popupAttached = TRUE]

\* Overlay.setPosition: moves the overlay's own container; the element
\* given at construction is not appended again
SetPosition(r, coord) == [r EXCEPT !.popupPosition = coord]

\* Game.mapClick; panIntoView moves the view's centre, which no handler reads
MapClick(r, hits, coord) ==
    LET each == ForEachFeatureAtPixel(r, hits)
        clickHit == hits # <<>>
    IN  IF each.threw THEN each
        ELSE IF clickHit THEN [r |-> SetPosition(each.r, coord), threw |-> FALSE]
        ELSE each

(* --------------------------------------------------------------- fetches *)
\* Game.loadWorld after its await
LoadWorldDone(r, f) ==
    [r EXCEPT !.pending = @ \ {f},
              !.countries = [loaded |-> TRUE, entries |-> Metadata],
              !.labelSource = LabelSourceOf(f.view)]

\* the continuation dropped when its view has been left
LoadCountryPolygonsDoneIfCurrent(r, f) ==
    IF f.view = r.views /\ Falsy(r.state)
    THEN [r EXCEPT !.pending = @ \ {f}, !.polygonSource = PolygonSourceOf(f.view)]
    ELSE [r EXCEPT !.pending = @ \ {f}]

\* Game.loadCountryPolygons after its await
LoadCountryPolygonsDone(r, f) ==
    [r EXCEPT !.pending = @ \ {f}, !.polygonSource = PolygonSourceOf(f.view)]

(* ----------------------------------------------------------- label style *)
\* labelStyle with the verbosity threshold included in the short range
labelStyleInclusive(feature, resolution) ==
    [ font |-> IF resolution < 4000 THEN "bold 22px sans-serif" ELSE "bold 15px sans-serif",
      text |-> IF resolution >= 10000 THEN feature.label.short ELSE feature.label.long ]

\* labelStyle(feature, resolution)
labelStyle(feature, resolution) ==
    LET label == feature.label
        text0 == <<"?", "?">>
        font0 == "bold 15px sans-serif"
        font1 == IF resolution < 4000 THEN "bold 22px sans-serif" ELSE font0
        text1 == IF resolution > 10000 THEN label.short ELSE label.long
    IN  [font |-> font1, text |-> text1]

(* --------------------------------------------------------------- actions *)
\* new Game(), lines 61 to 95: the fields before startState is called
Constructed(s0) ==
    [ state |-> SearchParamsGet(s0, <<"c">>), selected |-> Undefined,
      countries |-> NoCountries, labelSource |-> NoSource, polygonSource |-> NoSource,
      popupAttached |-> TRUE, popupText |-> <<>>, popupPosition |-> NoPosition,
      search |-> s0, hist |-> << [data |-> Null, search |-> s0] >>,
      pending |-> {}, views |-> 0, switches |-> 0 ]

Init ==
    \E s0 \in InitialSearches :
        LET r0 == Constructed(s0)
            r1 == StartState(r0)
        IN  /\ state = r1.state
            /\ selected = r1.selected
            /\ countries = r1.countries
            /\ labelSource = r1.labelSource
            /\ polygonSource = r1.polygonSource
            /\ popupAttached = r1.popupAttached
            /\ popupText = r1.popupText
            /\ popupPosition = r1.popupPosition
            /\ search = r1.search
            /\ hist = r1.hist
            /\ pending = r1.pending
            /\ views = r1.views
            /\ switches = r1.switches
            /\ last = [op |-> "constructor", pre |-> r0]

\* the click listener of the start button: switchState(this.#selected)
StartButtonClick ==
    /\ switches < MaxSwitches
    /\ LET steps == SwitchStateSteps(Cur, selected)
       IN  /\ Commit([steps[4] EXCEPT !.switches = @ + 1])
           /\ last' = [op |-> "switchState", arg |-> selected, pre |-> Cur, steps |-> steps]

\* the singleclick listener of the map, for a click at coord over hits
MapSingleClickOn(hits, coord) ==
    LET done == MapClick(Cur, hits, coord)
    IN  /\ Commit(done.r)
        /\ last' = [op |-> "mapClick", hits |-> hits, coord |-> coord,
                    threw |-> done.threw]

\* the singleclick listener of the map
MapSingleClick ==
    \E hits \in HitLists(Cur), coord \in ClickCoordinates :
        MapSingleClickOn(hits, coord)

\* the fetch of countries.json resolves and loadWorld resumes
LoadWorldResumes ==
    \E f \in pending :
        /\ f.kind = "loadWorld"
        /\ Commit(LoadWorldDone(Cur, f))
        /\ last' = [op |-> "loadWorld", fetch |-> f]

\* the fetch of the GeoJSON document resolves and loadCountryPolygons resumes
LoadCountryPolygonsResumes ==
    \E f \in pending :
        /\ f.kind = "loadCountryPolygons"
        /\ Commit(LoadCountryPolygonsDone(Cur, f))
        /\ last' = [op |-> "loadCountryPolygons", fetch |-> f]

\* the renderer calls the style function of a feature of the label layer
RenderLabel ==
    \E i \in 1..Len(SourceFeatures(labelSource)), resolution \in Resolutions :
        LET feature == SourceFeatures(labelSource)[i]
        IN  /\ Commit(Cur)
            /\ last' = [op |-> "labelStyle", feature |-> feature,
                        resolution |-> resolution,
                        style |-> labelStyle(feature, resolution)]

Next ==
    \/ StartButtonClick
    \/ MapSingleClick
    \/ LoadWorldResumes
    \/ LoadCountryPolygonsResumes

Spec == Init /\ [][Next]_vars

\* the label layer being rendered: the page is opened, the metadata arrives,
\* the renderer styles the label features
NextStyle ==
    \/ LoadWorldResumes
    \/ RenderLabel

SpecStyle == Init /\ [][NextStyle]_vars

(* ================================================================ claims *)
\* the value of query parameter c in the current URL
ParamC == SearchParamsGet(search, <<"c">>)

\* the two fetches a world view numbered v starts
FetchesOf(v) == { [kind |-> "loadWorld", view |-> v],
                  [kind |-> "loadCountryPolygons", view |-> v] }

\* C1: when switchState(s) returns, query parameter c equals s if s is a
\* string, and the URL carries no c parameter if s is null or undefined.
C1_UrlParameterFollowsArgument ==
    last.op = "switchState" =>
        ParamC = (IF NotNullish(last.arg) THEN last.arg ELSE Null)

\* C2: every call of switchState appends exactly one entry to the session
\* history and no step replaces or removes an entry: after n switches the
\* history holds n entries more than at construction, earlier ones unchanged.
C2_EverySwitchPushesOneEntry ==
    [][ /\ Len(hist') >= Len(hist)
        /\ SubSeq(hist', 1, Len(hist)) = hist
        /\ Len(hist') = Len(hist) + (IF last'.op = "switchState" THEN 1 ELSE 0)
        /\ Len(hist') = 1 + switches'
        /\ last'.op = "switchState" => hist'[Len(hist')].data = last'.arg ]_vars

\* C2 witness: a second switch, to the code that is already the state
C2_SwitchToSameCode ==
    /\ last.op = "switchState"
    /\ NotNullish(last.arg)
    /\ last.arg = last.pre.state
    /\ Len(hist) = 3

\* C3: a click that hits the feature of a country present in the metadata
\* yields an attached popup at the click coordinate whose text is
\* "{emoji} {name}" of that country, and selects that country's code.
C3_ClickHitShowsPopup ==
    \A info \in Metadata :
        ( /\ last.op = "mapClick"
          /\ last.hits # <<>>
          /\ countries.loaded /\ info \in countries.entries
          /\ \A i \in 1..Len(last.hits) : last.hits[i].iso2 = Str(info.iso2) )
        => /\ popupAttached
           /\ popupPosition = last.coord
           /\ popupText = info.emoji \o <<" ">> \o info.name
           /\ selected = Str(info.iso2)

\* C4: between handlers the URL mirrors the state in memory: parameter c
\* equals the state, and is absent when the state is null or undefined.
C4_UrlMirrorsState ==
    ParamC = (IF NotNullish(state) THEN state ELSE Null)

\* C5: labelStyle returns the short text exactly when resolution > 10000 and
\* the long text otherwise, the 22px font exactly when resolution < 4000 and
\* the 15px font otherwise, and never the placeholder '??'.
C5_LabelStyleThresholds ==
    last.op = "labelStyle" =>
        LET label == last.feature.label
            res == last.resolution
        IN  /\ res > 10000 => last.style.text = label.short
            /\ res <= 10000 => last.style.text = label.long
            /\ res < 4000 => last.style.font = "bold 22px sans-serif"
            /\ res >= 4000 => last.style.font = "bold 15px sans-serif"
            /\ last.style.text # <<"?", "?">>

\* C5 witness: the style at the verbosity threshold itself
C5_StyledAtThreshold ==
    /\ last.op = "labelStyle"
    /\ last.resolution = 10000
    /\ last.style.text = last.feature.label.long
    /\ last.style.font = "bold 15px sans-serif"

\* C6: a state switch does not cancel a pending fetch, and the fetch's
\* completion installs its data whatever the active state has become.
C6_StaleFetchStillInstalls ==
    /\ last.op = "switchState" => last.pre.pending \subseteq pending
    /\ last.op = "loadWorld" =>
          /\ labelSource = LabelSourceOf(last.fetch.view)
          /\ countries = [loaded |-> TRUE, entries |-> Metadata]
    /\ last.op = "loadCountryPolygons" =>
          polygonSource = PolygonSourceOf(last.fetch.view)

\* C6 witness: a country is the active state and the polygon layer holds
\* the source of the world view that was left
C6_StaleSourceOnSupersededView ==
    /\ ~Falsy(state)
    /\ last.op = "loadCountryPolygons"
    /\ polygonSource.kind = "polygons"
    /\ labelSource = NoSource

\* C7: switchState runs the teardown first, decided by the state held before
\* the call, then sets the state, then pushes the URL entry, and only then
\* starts the new view, decided by its argument.
C7_SwitchStateOrder ==
    last.op = "switchState" =>
        LET p == last.pre
            s == last.arg
            st == last.steps
        IN  /\ Len(st) = 4
            \* 1: endState, on the old state; nothing of the new view yet
            /\ st[1].state = p.state
            /\ Falsy(p.state) =>
                  /\ st[1].labelSource = NoSource
                  /\ st[1].polygonSource = NoSource
                  /\ ~st[1].popupAttached
            /\ ~Falsy(p.state) => st[1] = p
            /\ st[1].hist = p.hist /\ st[1].search = p.search
            /\ st[1].pending = p.pending /\ st[1].views = p.views
            \* 2: the assignment
            /\ st[2] = [st[1] EXCEPT !.state = s]
            \* 3: pushState; the new view is not started yet
            /\ Len(st[3].hist) = Len(p.hist) + 1
            /\ st[3].state = s
            /\ st[3].pending = p.pending /\ st[3].views = p.views
            \* 4: startState, on the new state
            /\ Falsy(s) => st[4].pending = p.pending \cup FetchesOf(p.views + 1)
            /\ ~Falsy(s) => st[4] = st[3]
            /\ st[4].hist = st[3].hist
            /\ Cur = [st[4] EXCEPT !.switches = @ + 1]

\* C7 witness: a switch from the world view to a country
C7_WorldViewToCountry ==
    /\ last.op = "switchState"
    /\ Falsy(last.pre.state)
    /\ ~Falsy(last.arg)
    /\ last.pre.labelSource # NoSource

\* C8: startState and endState branch only on whether the state is empty
\* (null, undefined or ""): with an empty state startState starts both
\* fetches and endState clears both layer sources and removes the popup;
\* with a non-empty state both change nothing.
C8_StartEndBranchOnEmptyState ==
    /\ last.op = "switchState" =>
          LET p == last.pre
              st == last.steps
          IN  /\ st[1] = IF Falsy(p.state)
                         THEN [p EXCEPT !.labelSource = NoSource,
                                        !.polygonSource = NoSource,
                                        !.popupAttached = FALSE]
                         ELSE p
              /\ st[4] = IF Falsy(st[3].state)
                         THEN [st[3] EXCEPT !.views = @ + 1,
                                            !.pending = @ \cup FetchesOf(st[3].views + 1)]
                         ELSE st[3]
    /\ last.op = "constructor" =>
          Cur = IF Falsy(last.pre.state)
                THEN [last.pre EXCEPT !.views = 1, !.pending = FetchesOf(1)]
                ELSE last.pre

\* C8 witness: a switch from a country to a country, with a layer source
\* in place for the two no-ops to leave alone
C8_CountryToCountry ==
    /\ last.op = "switchState"
    /\ ~Falsy(last.pre.state)
    /\ ~Falsy(last.arg)
    /\ polygonSource.kind = "polygons"
    /\ pending = {}

\* the first feature of hits whose code has no entry in the metadata
FirstWithoutEntry(cs, hits) ==
    CHOOSE k \in 1..Len(hits) :
        /\ ~HasEntry(cs, hits[k].iso2)
        /\ \A j \in 1..(k - 1) : HasEntry(cs, hits[j].iso2)

\* C9: a click that hits a feature whose code has no entry in the metadata
\* ends in a runtime error: popup text and popup position keep their previous
\* values, the selected code is already that feature's code, and a following
\* start-button click switches to that code.
C9_FailedClickKeepsPopup ==
    [][ /\ ( /\ last'.op = "mapClick"
             /\ \E i \in 1..Len(last'.hits) : ~HasEntry(countries, last'.hits[i].iso2) )
           => /\ last'.threw
              /\ popupText' = popupText
              /\ popupPosition' = popupPosition
              /\ selected' = last'.hits[FirstWithoutEntry(countries, last'.hits)].iso2
        /\ last'.op = "switchState" => (last'.arg = selected /\ state' = selected) ]_vars

\* C9 as amended: the popup position keeps its previous value; the popup text
\* keeps its previous value when the feature without entry is the first one
\* hit, and otherwise is the text of the feature hit just before it.
C9_FailedClickKeepsPosition ==
    [][ /\ ( /\ last'.op = "mapClick"
             /\ \E i \in 1..Len(last'.hits) : ~HasEntry(countries, last'.hits[i].iso2) )
           => LET hits == last'.hits
                  k == FirstWithoutEntry(countries, hits)
              IN  /\ last'.threw
                  /\ popupText' = IF k = 1 THEN popupText
                                  ELSE PopupTextOf(EntryOf(countries, hits[k - 1].iso2))
                  /\ popupPosition' = popupPosition
                  /\ selected' = hits[k].iso2
        /\ last'.op = "switchState" => (last'.arg = selected /\ state' = selected) ]_vars

\* C9 witness: a click failed on a feature without iso2 after an earlier
\* feature of the same click had set the text; the popup was never positioned
C9_FailedAfterFirstFeature ==
    /\ last.op = "mapClick"
    /\ last.threw
    /\ Len(last.hits) = 2
    /\ selected = Undefined
    /\ popupText # <<>>
    /\ popupPosition = NoPosition

\* C10: once switchState has run from the world view the popup element is
\* detached, and no later operation attaches it again.
C10_PopupRemovalIsPermanent ==
    [][ /\ ~popupAttached => ~popupAttached'
        /\ (last'.op = "switchState" /\ Falsy(state)) => ~popupAttached' ]_vars

\* C10 witness: a successful click hit in a reloaded world view, the popup
\* still detached
C10_HitInReloadedWorldView ==
    /\ last.op = "mapClick"
    /\ last.hits # <<>> /\ ~last.threw
    /\ Falsy(state)
    /\ views >= 2
    /\ labelSource = LabelSourceOf(views)
    /\ popupPosition # NoPosition
    /\ ~popupAttached

====
